---- MODULE Spec2Model ----
(***************************************************************************)
(* Model of atooms.simulation (src/atooms/simulation/__init__.py): the     *)
(* Scheduler classes, the observers, the registration ledger kept by       *)
(* Simulation.add and the run loop of Simulation.run.                      *)
(*                                                                         *)
(* Python values are modelled as follows.  None is NoneVal.  Times and the *)
(* rmsd are floats in the program and naturals here; only their order and  *)
(* whether a difference is zero is used.  An observer object is a record   *)
(* [kind, id, arg]: kind is its class, id its identity, arg the threshold  *)
(* of a Target, the limit of a TargetWallTime, or the `what` of a          *)
(* Speedometer.  The lists _callback and _scheduler are the sequences      *)
(* callback and scheduler.                                                 *)
(***************************************************************************)
EXTENDS Integers, Sequences, FiniteSets, TLC

VARIABLES
    callback,       \* Simulation._callback
    scheduler,      \* Simulation._scheduler
    steps,          \* Simulation.steps
    initial_steps,  \* Simulation.initial_steps
    target_steps,   \* Simulation.target_steps
    restart,        \* Simulation.restart
    output_path,    \* Simulation.output_path (NoneVal or 1 for a directory)
    start_time,     \* Simulation.start_time
    speedo,         \* the attributes of the two Speedometer objects, by id
    pc,             \* "INIT", "RUNNING", "ENDED", "FAILED": where run() is
    propagated,     \* the exception run() raised to its caller, or "none"
    cause,          \* what ended the last run(): [who, kind, exc]
    log,            \* history: the calls and log lines of every run()
    nrun,           \* number of run() calls started
    nadd,           \* number of add() calls made after construction
    now,            \* the wall clock, time.time()
    rmsd,           \* the backend's root mean squared displacement
    stop_marker,    \* whether <output_path>/STOP exists
    sched,          \* a Scheduler built on its own: arguments and outcome
    seq             \* a step followed by the values of repeated sched.next

vars == <<callback, scheduler, steps, initial_steps, target_steps, restart,
          output_path, start_time, speedo, pc, propagated, cause, log, nrun,
          nadd, now, rmsd, stop_marker, sched, seq>>

----------------------------------------------------------------------------
(* Bounds of the model *)

MaxSteps == 2
MaxAdds == 1
MaxRuns == 2
MaxLedgerAdds == 3
MaxStart == 4
MaxIter == 3

(* Python's None in an integer position *)
NoneVal == -1

(* sys.maxint, on a build with 32-bit ints *)
MaxInt == 2147483647

(* Hard-coded numbers of Simulation.__init__ *)
RmsdInterval == 10000
SpeedometerCalls == 10
EtaDivisor == 200

(* Values the constructor arguments and add() arguments are drawn from *)
ThermoIntervals == {1, 2}
CheckpointIntervals == {0, 1, 2}
RmsdThreshold == 1
(* the pairs <<rmsd, output_path>> of constructor arguments *)
CtorArgs == {<<NoneVal, 1>>, <<RmsdThreshold, 1>>, <<NoneVal, NoneVal>>}
WallTimeLimits == {0}

Max2(a, b) == IF a >= b THEN a ELSE b

(* min(s) of a non-empty list *)
SeqMin(s) ==
    CHOOSE m \in {s[i] : i \in 1..Len(s)} : \A i \in 1..Len(s) : m <= s[i]

----------------------------------------------------------------------------
(* Scheduler and OnetimeScheduler *)

(* Scheduler.__init__ accepting calls > 0 without a target *)
SchedulerInit_Dynamic(interval, calls, target) ==
    IF interval > 0
    THEN [ok |-> TRUE,
          s |-> [type |-> "Scheduler", interval |-> interval,
                 calls |-> calls, target |-> target]]
    ELSE IF calls > 0
         THEN IF target # NoneVal
              THEN [ok |-> TRUE,
                    s |-> [type |-> "Scheduler",
                           interval |-> Max2(1, target \div calls),
                           calls |-> calls, target |-> target]]
              ELSE [ok |-> TRUE,
                    s |-> [type |-> "Scheduler", interval |-> interval,
                           calls |-> calls, target |-> target]]
         ELSE [ok |-> TRUE,
               s |-> [type |-> "Scheduler", interval |-> interval,
                      calls |-> calls, target |-> target]]

(* Scheduler.__init__ deriving target / calls with no lower bound of 1 *)
SchedulerInit_NoFloor(interval, calls, target) ==
    IF interval > 0
    THEN [ok |-> TRUE,
          s |-> [type |-> "Scheduler", interval |-> interval,
                 calls |-> calls, target |-> target]]
    ELSE IF calls > 0
         THEN IF target # NoneVal
              THEN [ok |-> TRUE,
                    s |-> [type |-> "Scheduler",
                           interval |-> target \div calls,
                           calls |-> calls, target |-> target]]
              ELSE [ok |-> FALSE,
                    s |-> [type |-> "Scheduler", interval |-> interval,
                           calls |-> calls, target |-> target]]
         ELSE [ok |-> TRUE,
               s |-> [type |-> "Scheduler", interval |-> interval,
                      calls |-> calls, target |-> target]]

(* Scheduler.__init__ rejecting every combination that gives no interval *)
SchedulerInit_RejectDisabled(interval, calls, target) ==
    IF interval > 0
    THEN [ok |-> TRUE,
          s |-> [type |-> "Scheduler", interval |-> interval,
                 calls |-> calls, target |-> target]]
    ELSE IF calls > 0
         THEN IF target # NoneVal
              THEN [ok |-> TRUE,
                    s |-> [type |-> "Scheduler",
                           interval |-> Max2(1, target \div calls),
                           calls |-> calls, target |-> target]]
              ELSE [ok |-> FALSE,
                    s |-> [type |-> "Scheduler", interval |-> interval,
                           calls |-> calls, target |-> target]]
         ELSE [ok |-> FALSE,
               s |-> [type |-> "Scheduler", interval |-> interval,
                      calls |-> calls, target |-> target]]

(* Scheduler.__init__: the object, or the SchedulerError it raises.  In    *)
(* Python 2 None > 0 is False, as is NoneVal > 0.                          *)
SchedulerInit(interval, calls, target) ==
    IF interval > 0
    THEN [ok |-> TRUE,
          s |-> [type |-> "Scheduler", interval |-> interval,
                 calls |-> calls, target |-> target]]
    ELSE IF calls > 0
         THEN IF target # NoneVal
              THEN [ok |-> TRUE,
                    s |-> [type |-> "Scheduler",
                           interval |-> Max2(1, target \div calls),
                           calls |-> calls, target |-> target]]
              ELSE [ok |-> FALSE,
                    s |-> [type |-> "Scheduler", interval |-> interval,
                           calls |-> calls, target |-> target]]
         ELSE [ok |-> TRUE,
               s |-> [type |-> "Scheduler", interval |-> interval,
                      calls |-> calls, target |-> target]]

(* OnetimeScheduler.__init__ *)
OnetimeSchedulerInit(interval) ==
    [type |-> "Onetime", interval |-> interval,
     calls |-> NoneVal, target |-> NoneVal]

(* Scheduler.next rounding up to a multiple, the step itself included *)
SchedulerNext_Ceil(s, this) ==
    IF s.interval > 0
    THEN ((this + s.interval - 1) \div s.interval) * s.interval
    ELSE MaxInt

(* Scheduler.next going one interval too far *)
SchedulerNext_SkipOne(s, this) ==
    IF s.interval > 0
    THEN (this \div s.interval + 2) * s.interval
    ELSE MaxInt

(* Scheduler.next answering the following step when disabled *)
SchedulerNext_DisabledEveryStep(s, this) ==
    IF s.interval > 0
    THEN (this \div s.interval + 1) * s.interval
    ELSE this + 1

(* Scheduler.next *)
SchedulerNext(s, this) ==
    IF s.interval > 0
    THEN (this \div s.interval + 1) * s.interval
    ELSE MaxInt

(* OnetimeScheduler.next answering like Scheduler.next *)
OnetimeSchedulerNext_Periodic(s, this) ==
    (this \div s.interval + 1) * s.interval

(* OnetimeScheduler.next *)
OnetimeSchedulerNext(s, this) ==
    IF this \div s.interval = 0 THEN s.interval ELSE MaxInt

(* s.next(this), dispatched on the class of s *)
next(s, this) ==
    IF s.type = "Onetime" THEN OnetimeSchedulerNext(s, this)
    ELSE SchedulerNext(s, this)

----------------------------------------------------------------------------
(* Observers *)

Obs(kind, id, arg) == [kind |-> kind, id |-> id, arg |-> arg]

(* isinstance(o, Target): Target and its subclasses TargetSteps,           *)
(* TargetRMSD and TargetWallTime.  UserStop derives from object.           *)
IsTarget(o) == o.kind \in {"steps", "rmsd", "walltime"}

(* Whether the object has the attributes name and target, which            *)
(* Target.__init__ sets; TargetWallTime.__init__ does not call it.         *)
HasTargetAttrs(o) == o.kind \in {"steps", "rmsd"}

(* Target.name *)
TargetName(o) == o.kind

(* Whether a UserStop object has an attribute STORAGE: the class defines   *)
(* none (Simulation does).                                                 *)
UserStopHasSTORAGE == FALSE

(* Ids of the objects Simulation.__init__ creates *)
IdSteps == 1
IdRmsd == 2
IdSpeedometer == 3
IdSpeedometerETA == 4
IdThermo == 5
IdConfig == 6
IdCheckpoint == 7

SpeedometerIds == {IdSpeedometer, IdSpeedometerETA}

(* Simulation.writer_checkpoint *)
writer_checkpoint == Obs("checkpoint", IdCheckpoint, 0)

----------------------------------------------------------------------------
(* Python list operations, with 0-based indexes *)

(* list.insert(i, x), for i >= 0 *)
ListInsert(l, i, x) ==
    IF i >= Len(l) THEN Append(l, x)
    ELSE SubSeq(l, 1, i) \o <<x>> \o SubSeq(l, i + 1, Len(l))

(* the list after list.pop(i) *)
ListPop(l, i) == SubSeq(l, 1, i) \o SubSeq(l, i + 2, Len(l))

(* list.index(x): the first index holding the object x, NoneVal for the    *)
(* ValueError                                                              *)
ListIndex(l, x) ==
    IF \E i \in 1..Len(l) : l[i].id = x.id
    THEN (CHOOSE i \in 1..Len(l) :
              /\ l[i].id = x.id
              /\ \A j \in 1..(i - 1) : l[j].id # x.id) - 1
    ELSE NoneVal

----------------------------------------------------------------------------
(* The registration ledger *)

(* Simulation._targeters *)
targeters(cb) == SelectSeq(cb, LAMBDA o : IsTarget(o))

(* Simulation._non_targeters *)
non_targeters(cb) == SelectSeq(cb, LAMBDA o : ~IsTarget(o))

(* add relocating the checkpoint in the observer list only *)
add_RelocateCallbackOnly(L, o, s) ==
    LET L1 == IF ~IsTarget(o)
              THEN [callback |-> ListInsert(L.callback, 0, o),
                    scheduler |-> ListInsert(L.scheduler, 0, s)]
              ELSE [callback |-> Append(L.callback, o),
                    scheduler |-> Append(L.scheduler, s)]
        idx == ListIndex(L1.callback, writer_checkpoint)
        cnt == Len(non_targeters(L1.callback))
    IN  IF idx = NoneVal THEN L1
        ELSE [callback |-> ListInsert(ListPop(L1.callback, idx), cnt - 1,
                                      L1.callback[idx + 1]),
              scheduler |-> L1.scheduler]

(* add putting a non-Target behind the non-Targets already registered *)
add_WriterAtTail(L, o, s) ==
    LET L1 == IF ~IsTarget(o)
              THEN [callback |->
                        ListInsert(L.callback,
                                   Len(non_targeters(L.callback)), o),
                    scheduler |->
                        ListInsert(L.scheduler,
                                   Len(non_targeters(L.callback)), s)]
              ELSE [callback |-> Append(L.callback, o),
                    scheduler |-> Append(L.scheduler, s)]
        idx == ListIndex(L1.callback, writer_checkpoint)
        cnt == Len(non_targeters(L1.callback))
    IN  IF idx = NoneVal THEN L1
        ELSE [callback |-> ListInsert(ListPop(L1.callback, idx), cnt - 1,
                                      L1.callback[idx + 1]),
              scheduler |-> ListInsert(ListPop(L1.scheduler, idx), cnt - 1,
                                       L1.scheduler[idx + 1])]

(* add relocating the checkpoint one place too far *)
add_RelocateOffByOne(L, o, s) ==
    LET L1 == IF ~IsTarget(o)
              THEN [callback |-> ListInsert(L.callback, 0, o),
                    scheduler |-> ListInsert(L.scheduler, 0, s)]
              ELSE [callback |-> Append(L.callback, o),
                    scheduler |-> Append(L.scheduler, s)]
        idx == ListIndex(L1.callback, writer_checkpoint)
        cnt == Len(non_targeters(L1.callback))
    IN  IF idx = NoneVal THEN L1
        ELSE [callback |-> ListInsert(ListPop(L1.callback, idx), cnt,
                                      L1.callback[idx + 1]),
              scheduler |-> ListInsert(ListPop(L1.scheduler, idx), cnt,
                                       L1.scheduler[idx + 1])]

(* Simulation.add, on the pair L = [callback, scheduler] of lists *)
add(L, o, s) ==
    LET L1 == IF ~IsTarget(o)
              THEN [callback |-> ListInsert(L.callback, 0, o),
                    scheduler |-> ListInsert(L.scheduler, 0, s)]
              ELSE [callback |-> Append(L.callback, o),
                    scheduler |-> Append(L.scheduler, s)]
        idx == ListIndex(L1.callback, writer_checkpoint)
        cnt == Len(non_targeters(L1.callback))
    IN  IF idx = NoneVal THEN L1
        ELSE [callback |-> ListInsert(ListPop(L1.callback, idx), cnt - 1,
                                      L1.callback[idx + 1]),
              scheduler |-> ListInsert(ListPop(L1.scheduler, idx), cnt - 1,
                                       L1.scheduler[idx + 1])]

(* The registrations of Simulation.__init__, in its order *)
InitLedger(T, rmsd_target, thermo_interval, checkpoint_interval) ==
    LET L0 == [callback |-> <<>>, scheduler |-> <<>>]
        L1 == add(L0, Obs("steps", IdSteps, T),
                  SchedulerInit(Max2(1, T), NoneVal, NoneVal).s)
        L2 == IF rmsd_target # NoneVal
              THEN add(L1, Obs("rmsd", IdRmsd, rmsd_target),
                       SchedulerInit(RmsdInterval, NoneVal, NoneVal).s)
              ELSE L1
        L3 == add(L2, Obs("speedometer", IdSpeedometer, 0),
                  SchedulerInit(NoneVal, SpeedometerCalls, T).s)
        L4 == add(L3, Obs("speedometer", IdSpeedometerETA, 1),
                  OnetimeSchedulerInit(Max2(1, T \div EtaDivisor)))
        L5 == add(L4, Obs("thermo", IdThermo, 0),
                  SchedulerInit(thermo_interval, 0, T).s)
        L6 == add(L5, Obs("config", IdConfig, 0),
                  SchedulerInit(0, 0, T).s)
    IN  add(L6, writer_checkpoint, SchedulerInit(checkpoint_interval, 0, T).s)

(* Speedometer.__init__ *)
SpeedometerInit ==
    [init |-> FALSE, name_target |-> "none", x_target |-> 0,
     x_last |-> 0, t_last |-> 0]

NoCause == [who |-> 0, kind |-> "none", exc |-> "none"]

(* No Scheduler has been built on its own *)
NoScheduler ==
    [built |-> FALSE, interval |-> NoneVal, calls |-> NoneVal,
     target |-> NoneVal, ok |-> FALSE,
     s |-> [type |-> "Scheduler", interval |-> NoneVal, calls |-> NoneVal,
            target |-> NoneVal]]

(* The state after Simulation(initial_state, output_path=a[2], steps=T,    *)
(* rmsd=a[1], thermo_interval=ti, checkpoint_interval=ci)                  *)
SimulationInit(T, ti, ci, a) ==
        LET rt == a[1]
            op == a[2]
            rs == FALSE
            L == InitLedger(T, rt, ti, ci)
        IN
        /\ callback = L.callback
        /\ scheduler = L.scheduler
        /\ steps = 0
        /\ initial_steps = 0
        /\ target_steps = T
        /\ restart = rs
        /\ output_path = op
        /\ start_time = 0
        /\ speedo = [i \in SpeedometerIds |-> SpeedometerInit]
        /\ pc = "INIT"
        /\ propagated = "none"
        /\ cause = NoCause
        /\ log = <<>>
        /\ nrun = 0
        /\ nadd = 0
        /\ now = 0
        /\ rmsd = 0
        /\ stop_marker = FALSE

(* The state after Simulation.__init__ *)
Init ==
    /\ \E T \in 0..MaxSteps, ti \in ThermoIntervals,
          ci \in CheckpointIntervals, a \in CtorArgs :
           SimulationInit(T, ti, ci, a)
    /\ sched = NoScheduler
    /\ seq = <<>>

(* The calls add(o, Scheduler(k)) a caller makes after construction: the   *)
(* pairs <<o, k>>, o getting the identity id                               *)
UserRegistrations(id) ==
    {<<Obs("writer", id, 0), 2>>, <<Obs("userstop", id, 0), 1>>,
     <<Obs("rmsd", id, RmsdThreshold), 1>>}
    \cup {<<Obs("walltime", id, w), 2>> : w \in WallTimeLimits}

(* A call of Simulation.add(o, Scheduler(k)) before run(), the nadd-th     *)
(* being allowed while nadd < limit                                        *)
Register(o, k, limit) ==
    /\ pc = "INIT"
    /\ nadd < limit
    /\ LET L == add([callback |-> callback, scheduler |-> scheduler], o,
                    SchedulerInit(k, NoneVal, NoneVal).s)
       IN  /\ callback' = L.callback
           /\ scheduler' = L.scheduler
    /\ nadd' = nadd + 1
    /\ UNCHANGED <<steps, initial_steps, target_steps, restart, output_path,
                   start_time, speedo, pc, propagated, cause, log, nrun, now,
                   rmsd, stop_marker, sched, seq>>

Add(o, k) == Register(o, k, MaxAdds)

(* Intervals of the OnetimeScheduler a caller registers a Writer with *)
OnetimeIntervals == {2}

(* A call of Simulation.add(o, OnetimeScheduler(k)) before run() *)
AddOnetime(o, k) ==
    /\ pc = "INIT"
    /\ nadd < MaxAdds
    /\ LET L == add([callback |-> callback, scheduler |-> scheduler], o,
                    OnetimeSchedulerInit(k))
       IN  /\ callback' = L.callback
           /\ scheduler' = L.scheduler
    /\ nadd' = nadd + 1
    /\ UNCHANGED <<steps, initial_steps, target_steps, restart, output_path,
                   start_time, speedo, pc, propagated, cause, log, nrun, now,
                   rmsd, stop_marker, sched, seq>>

(* The same call where only registrations are studied *)
AddToLedger(o, k) == Register(o, k, MaxLedgerAdds)

----------------------------------------------------------------------------
(* Calling an observer.  sim is what the observer reads of the Simulation: *)
(* [steps, initial_steps, now, rmsd, run].  st is what the calls made so   *)
(* far have produced: [log, speedo, exc, who, kind], exc being the         *)
(* exception in flight ("none" for none) and who, kind its raiser.         *)

(* A log entry: event ev of observer o (Nobody for run() itself) in run    *)
(* sim.run at step sim.steps; val is the effective target of a "run"      *)
(* entry, the argument logged by run(t) in a "target" entry and the step   *)
(* asked of the backend in an "advance" entry.                             *)
Ev(sim, ev, o) ==
    [run |-> sim.run, ev |-> ev, who |-> o.id, kind |-> o.kind,
     step |-> sim.steps, val |-> 0]

Nobody == Obs("none", 0, 0)

Raise(st, o, exc) == [st EXCEPT !.exc = exc, !.who = o.id, !.kind = o.kind]

(* getattr(sim, name) for the names Target objects carry *)
GetAttr(sim, name) == IF name = "steps" THEN sim.steps ELSE sim.rmsd

(* Simulation.elapsed_wall_time *)
elapsed_wall_time(sim) == sim.now - start_time

(* Whether Simulation.wall_time_per_step raises ZeroDivisionError.  The    *)
(* particle count wall_time_per_step_particle divides by comes from the    *)
(* backend and is taken to be positive.                                    *)
WallTimePerStepFails(sim) == sim.steps - sim.initial_steps = 0

(* Speedometer.__call__ binding to the last Target of the ledger *)
SpeedometerCall_BindLast(o, sim, st) ==
    LET me == st.speedo[o.id]
        tg == IF targeters(callback) = <<>> THEN <<>>
              ELSE <<targeters(callback)[Len(targeters(callback))]>>
    IN  IF ~me.init /\ tg # <<>>
        THEN IF ~HasTargetAttrs(tg[1])
             THEN Raise(st, o, "AttributeError")
             ELSE [st EXCEPT !.speedo[o.id] =
                      [init |-> TRUE,
                       name_target |-> TargetName(tg[1]),
                       x_target |-> tg[1].arg,
                       x_last |-> GetAttr(sim, TargetName(tg[1])),
                       t_last |-> sim.now]]
        ELSE IF ~me.init
        THEN Raise(st, o, "AttributeError")
        ELSE IF me.x_target > 0
        THEN LET x_now == GetAttr(sim, me.name_target) IN
             IF sim.now - me.t_last = 0 THEN Raise(st, o, "ZeroDivisionError")
             ELSE IF x_now - me.x_last = 0
             THEN Raise(st, o, "ZeroDivisionError")
             ELSE IF WallTimePerStepFails(sim)
             THEN Raise(st, o, "ZeroDivisionError")
             ELSE [st EXCEPT !.log = Append(@, Ev(sim, "speed", o)),
                             !.speedo[o.id].t_last = sim.now,
                             !.speedo[o.id].x_last = x_now]
        ELSE Raise(st, o, "UnboundLocalError")

(* Speedometer.__call__ *)
SpeedometerCall(o, sim, st) ==
    LET me == st.speedo[o.id]
        tg == targeters(callback)
    IN  IF ~me.init /\ tg # <<>>
        THEN IF ~HasTargetAttrs(tg[1])
             THEN Raise(st, o, "AttributeError")
             ELSE [st EXCEPT !.speedo[o.id] =
                      [init |-> TRUE,
                       name_target |-> TargetName(tg[1]),
                       x_target |-> tg[1].arg,
                       x_last |-> GetAttr(sim, TargetName(tg[1])),
                       t_last |-> sim.now]]
        ELSE IF ~me.init
        THEN Raise(st, o, "AttributeError")
        ELSE IF me.x_target > 0
        THEN LET x_now == GetAttr(sim, me.name_target) IN
             IF sim.now - me.t_last = 0 THEN Raise(st, o, "ZeroDivisionError")
             ELSE IF x_now - me.x_last = 0
             THEN Raise(st, o, "ZeroDivisionError")
             ELSE IF WallTimePerStepFails(sim)
             THEN Raise(st, o, "ZeroDivisionError")
             ELSE [st EXCEPT !.log = Append(@, Ev(sim, "speed", o)),
                             !.speedo[o.id].t_last = sim.now,
                             !.speedo[o.id].x_last = x_now]
        ELSE Raise(st, o, "UnboundLocalError")

(* Target.__call__ ending the run only once the target is exceeded *)
TargetCall_Strict(o, sim, st) ==
    IF GetAttr(sim, TargetName(o)) > o.arg
    THEN Raise(st, o, "SimulationEnd")
    ELSE st

(* Target.__call__, for TargetSteps and TargetRMSD *)
TargetCall(o, sim, st) ==
    IF GetAttr(sim, TargetName(o)) >= o.arg
    THEN Raise(st, o, "SimulationEnd")
    ELSE st

(* TargetWallTime.__call__ *)
TargetWallTimeCall(o, sim, st) ==
    IF elapsed_wall_time(sim) > o.arg
    THEN Raise(st, o, "WallTimeLimit")
    ELSE st

(* UserStop.__call__ doing nothing when there is no output path *)
UserStopCall_SilentWithoutPath(o, sim, st) ==
    IF output_path # NoneVal
    THEN IF ~UserStopHasSTORAGE
         THEN Raise(st, o, "AttributeError")
         ELSE IF stop_marker THEN Raise(st, o, "SimulationEnd") ELSE st
    ELSE st

(* UserStop.__call__ *)
UserStopCall(o, sim, st) ==
    IF output_path # NoneVal
    THEN IF ~UserStopHasSTORAGE
         THEN Raise(st, o, "AttributeError")
         ELSE IF stop_marker THEN Raise(st, o, "SimulationEnd") ELSE st
    ELSE Raise(st, o, "RuntimeError")

(* o(sim): the call of one observer, recorded in the log *)
Call(o, sim, st) ==
    LET st1 == [st EXCEPT !.log = Append(@, Ev(sim, "call", o))] IN
    IF o.kind = "speedometer" THEN SpeedometerCall(o, sim, st1)
    ELSE IF o.kind \in {"steps", "rmsd"} THEN TargetCall(o, sim, st1)
    ELSE IF o.kind = "walltime" THEN TargetWallTimeCall(o, sim, st1)
    ELSE IF o.kind = "userstop" THEN UserStopCall(o, sim, st1)
    ELSE st1

(* Simulation.notify: the observers are called in order until one raises.  *)
(* (Here and below a bound variable over a one-element set {e} names the   *)
(* value of e.)                                                            *)
RECURSIVE notify(_, _, _)
notify(observers, sim, st) ==
    IF observers = <<>> \/ st.exc # "none" THEN st
    ELSE CHOOSE res \in {notify(rest, sim, st1) :
                             rest \in {Tail(observers)},
                             st1 \in {Call(Head(observers), sim, st)}} : TRUE

(* Simulation._report_observers: the exception it raises, or "none".  It   *)
(* formats f.target for every Target f of the ledger.                      *)
ReportObservers ==
    IF \E i \in 1..Len(callback) :
           IsTarget(callback[i]) /\ ~HasTargetAttrs(callback[i])
    THEN "AttributeError" ELSE "none"

(* RunExit without the forced checkpoint of the SimulationEnd clause *)
RunExit_NoForcedCheckpoint(sim, st) ==
    IF st.exc = "none" THEN st.log
    ELSE IF st.exc = "SimulationEnd"
    THEN LET l2 == IF ~(sim.initial_steps = sim.steps)
                   THEN Append(st.log, Ev(sim, "summary", Nobody)) ELSE st.log
         IN  Append(l2, Ev(sim, "goodbye", Nobody))
    ELSE IF st.exc = "KeyboardInterrupt"
    THEN Append(st.log, Ev(sim, "goodbye", Nobody))
    ELSE Append(Append(st.log, Ev(sim, "fatal", Nobody)),
                Ev(sim, "goodbye", Nobody))

(* RunExit with the KeyboardInterrupt clause finalizing like SimulationEnd *)
RunExit_CheckpointOnAbort(sim, st) ==
    IF st.exc = "none" THEN st.log
    ELSE IF st.exc = "SimulationEnd"
    THEN LET l1 == Append(st.log, Ev(sim, "forced", writer_checkpoint))
             l2 == IF ~(sim.initial_steps = sim.steps)
                   THEN Append(l1, Ev(sim, "summary", Nobody)) ELSE l1
         IN  Append(l2, Ev(sim, "goodbye", Nobody))
    ELSE IF st.exc = "KeyboardInterrupt"
    THEN Append(Append(st.log, Ev(sim, "forced", writer_checkpoint)),
                Ev(sim, "goodbye", Nobody))
    ELSE Append(Append(st.log, Ev(sim, "fatal", Nobody)),
                Ev(sim, "goodbye", Nobody))

(* RunExit forcing the checkpoint only when it was not just called by its  *)
(* schedule at this step                                                   *)
RunExit_ForcedUnlessScheduled(sim, st) ==
    IF st.exc = "none" THEN st.log
    ELSE IF st.exc = "SimulationEnd"
    THEN LET done == \E i \in 1..Len(st.log) :
                         /\ st.log[i].run = sim.run
                         /\ st.log[i].ev = "call"
                         /\ st.log[i].who = IdCheckpoint
                         /\ st.log[i].step = sim.steps
             l1 == IF done THEN st.log
                   ELSE Append(st.log, Ev(sim, "forced", writer_checkpoint))
             l2 == IF ~(sim.initial_steps = sim.steps)
                   THEN Append(l1, Ev(sim, "summary", Nobody)) ELSE l1
         IN  Append(l2, Ev(sim, "goodbye", Nobody))
    ELSE IF st.exc = "KeyboardInterrupt"
    THEN Append(st.log, Ev(sim, "goodbye", Nobody))
    ELSE Append(Append(st.log, Ev(sim, "fatal", Nobody)),
                Ev(sim, "goodbye", Nobody))

(* RunExit with the KeyboardInterrupt clause reporting like SimulationEnd *)
RunExit_SummaryOnAbort(sim, st) ==
    IF st.exc = "none" THEN st.log
    ELSE IF st.exc = "SimulationEnd"
    THEN LET l1 == Append(st.log, Ev(sim, "forced", writer_checkpoint))
             l2 == IF ~(sim.initial_steps = sim.steps)
                   THEN Append(l1, Ev(sim, "summary", Nobody)) ELSE l1
         IN  Append(l2, Ev(sim, "goodbye", Nobody))
    ELSE IF st.exc = "KeyboardInterrupt"
    THEN LET l2 == IF ~(sim.initial_steps = sim.steps)
                   THEN Append(st.log, Ev(sim, "summary", Nobody)) ELSE st.log
         IN  Append(l2, Ev(sim, "goodbye", Nobody))
    ELSE Append(Append(st.log, Ev(sim, "fatal", Nobody)),
                Ev(sim, "goodbye", Nobody))

(* RunExit reporting the end of the run whether or not steps were taken *)
RunExit_SummaryAlways(sim, st) ==
    IF st.exc = "none" THEN st.log
    ELSE IF st.exc = "SimulationEnd"
    THEN LET l1 == Append(st.log, Ev(sim, "forced", writer_checkpoint))
             l2 == Append(l1, Ev(sim, "summary", Nobody))
         IN  Append(l2, Ev(sim, "goodbye", Nobody))
    ELSE IF st.exc = "KeyboardInterrupt"
    THEN Append(st.log, Ev(sim, "goodbye", Nobody))
    ELSE Append(Append(st.log, Ev(sim, "fatal", Nobody)),
                Ev(sim, "goodbye", Nobody))

(* The except and finally clauses of Simulation.run, for the state st the  *)
(* try block ended in: the log they leave                                  *)
RunExit(sim, st) ==
    IF st.exc = "none" THEN st.log
    ELSE IF st.exc = "SimulationEnd"
    THEN LET l1 == Append(st.log, Ev(sim, "forced", writer_checkpoint))
             l2 == IF ~(sim.initial_steps = sim.steps)
                   THEN Append(l1, Ev(sim, "summary", Nobody)) ELSE l1
         IN  Append(l2, Ev(sim, "goodbye", Nobody))
    ELSE IF st.exc = "KeyboardInterrupt"
    THEN Append(st.log, Ev(sim, "goodbye", Nobody))
    ELSE Append(Append(st.log, Ev(sim, "fatal", Nobody)),
                Ev(sim, "goodbye", Nobody))

(* Where run() is after those clauses *)
RunState(exc) ==
    IF exc = "none" THEN "RUNNING"
    ELSE IF exc \in {"SimulationEnd", "KeyboardInterrupt"} THEN "ENDED"
    ELSE "FAILED"

(* run() swallowing every exception *)
RunRaises_SwallowFailure(exc) == "none"

(* What run() raises to its caller *)
RunRaises(exc) ==
    IF exc \in {"none", "SimulationEnd", "KeyboardInterrupt"} THEN "none"
    ELSE exc

----------------------------------------------------------------------------
(* Simulation.run *)

(* run() without the notification of the non-targeters before the loop *)
RunPrologue_NoInitialNotify(rs, ts, sim, st0) ==
    IF ReportObservers # "none"
    THEN [restart |-> rs, target_steps |-> ts,
          pc |-> "FAILED",
          propagated |-> ReportObservers,
          cause |-> [who |-> 0, kind |-> "report", exc |-> ReportObservers],
          log |-> st0.log,
          speedo |-> speedo]
    ELSE CHOOSE res \in
           {[restart |-> rs, target_steps |-> ts,
             pc |-> RunState(st2.exc),
             propagated |-> RunRaises(st2.exc),
             cause |-> [who |-> st2.who, kind |-> st2.kind, exc |-> st2.exc],
             log |-> RunExit(sim, st2),
             speedo |-> st2.speedo] :
            st2 \in {notify(targeters(callback), sim, st0)}} : TRUE

(* run() notifying the non-targeters before the targeters *)
RunPrologue_WritersFirst(rs, ts, sim, st0) ==
    IF ReportObservers # "none"
    THEN [restart |-> rs, target_steps |-> ts,
          pc |-> "FAILED",
          propagated |-> ReportObservers,
          cause |-> [who |-> 0, kind |-> "report", exc |-> ReportObservers],
          log |-> st0.log,
          speedo |-> speedo]
    ELSE CHOOSE res \in
           {[restart |-> rs, target_steps |-> ts,
             pc |-> RunState(st2.exc),
             propagated |-> RunRaises(st2.exc),
             cause |-> [who |-> st2.who, kind |-> st2.kind, exc |-> st2.exc],
             log |-> RunExit(sim, st2),
             speedo |-> st2.speedo] :
            st2 \in {IF ~rs
                     THEN notify(targeters(callback), sim,
                                 notify(non_targeters(callback), sim, st0))
                     ELSE notify(targeters(callback), sim, st0)}} : TRUE

(* run() notifying the non-targeters also when the restart flag is set *)
RunPrologue_NotifyOnRestart(rs, ts, sim, st0) ==
    IF ReportObservers # "none"
    THEN [restart |-> rs, target_steps |-> ts,
          pc |-> "FAILED",
          propagated |-> ReportObservers,
          cause |-> [who |-> 0, kind |-> "report", exc |-> ReportObservers],
          log |-> st0.log,
          speedo |-> speedo]
    ELSE CHOOSE res \in
           {[restart |-> rs, target_steps |-> ts,
             pc |-> RunState(st2.exc),
             propagated |-> RunRaises(st2.exc),
             cause |-> [who |-> st2.who, kind |-> st2.kind, exc |-> st2.exc],
             log |-> RunExit(sim, st2),
             speedo |-> st2.speedo] :
            st2 \in {notify(non_targeters(callback), sim,
                            notify(targeters(callback), sim, st0))}} : TRUE

(* The values run() leaves at the while loop, or at its exit, when the     *)
(* observers have been reported and notified as run() does before the loop *)
RunPrologue(rs, ts, sim, st0) ==
    IF ReportObservers # "none"
    THEN [restart |-> rs, target_steps |-> ts,
          pc |-> "FAILED",
          propagated |-> ReportObservers,
          cause |-> [who |-> 0, kind |-> "report", exc |-> ReportObservers],
          log |-> st0.log,
          speedo |-> speedo]
    ELSE CHOOSE res \in
           {[restart |-> rs, target_steps |-> ts,
             pc |-> RunState(st2.exc),
             propagated |-> RunRaises(st2.exc),
             cause |-> [who |-> st2.who, kind |-> st2.kind, exc |-> st2.exc],
             log |-> RunExit(sim, st2),
             speedo |-> st2.speedo] :
            st2 \in {IF ~rs
                     THEN notify(non_targeters(callback), sim,
                                 notify(targeters(callback), sim, st0))
                     ELSE notify(targeters(callback), sim, st0)}} : TRUE

(* run(t) setting the restart flag whenever t is supplied *)
RunStart_RestartWhenSupplied(t) ==
    /\ pc # "RUNNING"
    /\ nrun < MaxRuns
    /\ \E rs \in {IF t # NoneVal THEN TRUE ELSE restart} :
       \E ts \in {IF t # NoneVal THEN t ELSE target_steps} :
       \E sim \in {[steps |-> steps, initial_steps |-> steps,
                    now |-> now + 1, rmsd |-> rmsd, run |-> nrun + 1]} :
       \E l0 \in {Append(log, [Ev(sim, "run", Nobody) EXCEPT !.val = ts])} :
       \E st0 \in {[log |-> IF t # NoneVal
                              THEN Append(l0, [Ev(sim, "target", Nobody)
                                               EXCEPT !.val = t])
                              ELSE l0,
                    speedo |-> speedo, exc |-> "none", who |-> 0,
                    kind |-> "none"]} :
       \E res \in {RunPrologue(rs, ts, sim, st0)} :
           /\ restart' = res.restart
           /\ target_steps' = res.target_steps
           /\ pc' = res.pc
           /\ propagated' = res.propagated
           /\ cause' = res.cause
           /\ log' = res.log
           /\ speedo' = res.speedo
    /\ initial_steps' = steps
    /\ nrun' = nrun + 1
    /\ now' = now + 1
    /\ UNCHANGED <<callback, scheduler, steps, output_path, start_time, nadd,
                   rmsd, stop_marker, sched, seq>>

(* run(t) keeping the initial_steps of the previous call *)
RunStart_NoSnapshot(t) ==
    /\ pc # "RUNNING"
    /\ nrun < MaxRuns
    /\ \E rs \in {IF t # NoneVal /\ t > target_steps THEN TRUE ELSE restart} :
       \E ts \in {IF t # NoneVal THEN t ELSE target_steps} :
       \E sim \in {[steps |-> steps, initial_steps |-> initial_steps,
                    now |-> now + 1, rmsd |-> rmsd, run |-> nrun + 1]} :
       \E l0 \in {Append(log, [Ev(sim, "run", Nobody) EXCEPT !.val = ts])} :
       \E st0 \in {[log |-> IF t # NoneVal
                              THEN Append(l0, [Ev(sim, "target", Nobody)
                                               EXCEPT !.val = t])
                              ELSE l0,
                    speedo |-> speedo, exc |-> "none", who |-> 0,
                    kind |-> "none"]} :
       \E res \in {RunPrologue(rs, ts, sim, st0)} :
           /\ restart' = res.restart
           /\ target_steps' = res.target_steps
           /\ pc' = res.pc
           /\ propagated' = res.propagated
           /\ cause' = res.cause
           /\ log' = res.log
           /\ speedo' = res.speedo
    /\ initial_steps' = initial_steps
    /\ nrun' = nrun + 1
    /\ now' = now + 1
    /\ UNCHANGED <<callback, scheduler, steps, output_path, start_time, nadd,
                   rmsd, stop_marker, sched, seq>>

(* A call of run(t), up to the while loop or to its exit.  The clock has   *)
(* advanced since it was last read.                                        *)
RunStart(t) ==
    /\ pc # "RUNNING"
    /\ nrun < MaxRuns
    /\ \E rs \in {IF t # NoneVal /\ t > target_steps THEN TRUE ELSE restart} :
       \E ts \in {IF t # NoneVal THEN t ELSE target_steps} :
       \E sim \in {[steps |-> steps, initial_steps |-> steps,
                    now |-> now + 1, rmsd |-> rmsd, run |-> nrun + 1]} :
       \E l0 \in {Append(log, [Ev(sim, "run", Nobody) EXCEPT !.val = ts])} :
       \E st0 \in {[log |-> IF t # NoneVal
                              THEN Append(l0, [Ev(sim, "target", Nobody)
                                               EXCEPT !.val = t])
                              ELSE l0,
                    speedo |-> speedo, exc |-> "none", who |-> 0,
                    kind |-> "none"]} :
       \E res \in {RunPrologue(rs, ts, sim, st0)} :
           /\ restart' = res.restart
           /\ target_steps' = res.target_steps
           /\ pc' = res.pc
           /\ propagated' = res.propagated
           /\ cause' = res.cause
           /\ log' = res.log
           /\ speedo' = res.speedo
    /\ initial_steps' = steps
    /\ nrun' = nrun + 1
    /\ now' = now + 1
    /\ UNCHANGED <<callback, scheduler, steps, output_path, start_time, nadd,
                   rmsd, stop_marker, sched, seq>>

(* all_steps of the loop body *)
AllSteps == [i \in 1..Len(scheduler) |-> next(scheduler[i], steps)]

(* next_step_ids keeping the first registration at the minimum only *)
NextStepIds_FirstOnly(all_steps, next_step) ==
    <<CHOOSE i \in 1..Len(all_steps) :
          /\ all_steps[i] = next_step
          /\ \A j \in 1..(i - 1) : all_steps[j] # next_step>>

(* next_step_ids of the loop body, 1-based *)
NextStepIds(all_steps, next_step) ==
    SelectSeq([i \in 1..Len(all_steps) |-> i],
              LAMBDA i : all_steps[i] = next_step)

(* next_obs of the loop body *)
NextObs(all_steps, next_step) ==
    LET ids == NextStepIds(all_steps, next_step)
    IN  [j \in 1..Len(ids) |-> callback[ids[j]]]

(* The loop body notifying the observers before self.steps is set *)
LoopBody_NotifyBeforeStep(outcome, before, sim, st0, next_obs) ==
    LET st == IF outcome = "ok" THEN notify(next_obs, before, st0)
              ELSE [st0 EXCEPT !.exc = outcome, !.kind = "backend"]
        end == IF outcome = "ok" THEN sim ELSE before
    IN  [steps |-> end.steps,
         rmsd |-> end.rmsd,
         pc |-> RunState(st.exc),
         propagated |-> RunRaises(st.exc),
         cause |-> [who |-> st.who, kind |-> st.kind, exc |-> st.exc],
         log |-> RunExit(end, st),
         speedo |-> st.speedo]

(* The loop body setting self.steps also when run_until raises *)
LoopBody_StepOnAbort(outcome, before, sim, st0, next_obs) ==
    LET st == IF outcome = "ok" THEN notify(next_obs, sim, st0)
              ELSE [st0 EXCEPT !.exc = outcome, !.kind = "backend"]
        end == sim
    IN  [steps |-> end.steps,
         rmsd |-> end.rmsd,
         pc |-> RunState(st.exc),
         propagated |-> RunRaises(st.exc),
         cause |-> [who |-> st.who, kind |-> st.kind, exc |-> st.exc],
         log |-> RunExit(end, st),
         speedo |-> st.speedo]

(* The values one iteration of the while loop leaves when run_until has    *)
(* returned or raised (outcome) and next_obs, if any, have been notified   *)
LoopBody(outcome, before, sim, st0, next_obs) ==
    LET st == IF outcome = "ok" THEN notify(next_obs, sim, st0)
              ELSE [st0 EXCEPT !.exc = outcome, !.kind = "backend"]
        end == IF outcome = "ok" THEN sim ELSE before
    IN  [steps |-> end.steps,
         rmsd |-> end.rmsd,
         pc |-> RunState(st.exc),
         propagated |-> RunRaises(st.exc),
         cause |-> [who |-> st.who, kind |-> st.kind, exc |-> st.exc],
         log |-> RunExit(end, st),
         speedo |-> st.speedo]

(* One iteration of the while loop.  outcome is what run_until does:       *)
(* return ("ok"), or raise KeyboardInterrupt or a backend error; r is the  *)
(* rmsd of the system after the advance.                                   *)
Tick(outcome, r) ==
    /\ pc = "RUNNING"
    /\ \E all_steps \in {AllSteps} :
       \E next_step \in {SeqMin(all_steps)} :
       \E next_obs \in {NextObs(all_steps, next_step)} :
       \E before \in {[steps |-> steps, initial_steps |-> initial_steps,
                       now |-> now + 1, rmsd |-> rmsd, run |-> nrun]} :
       \E sim \in {[before EXCEPT !.steps = next_step, !.rmsd = r]} :
       \E st0 \in {[log |-> Append(log, [Ev(before, "advance", Nobody)
                                         EXCEPT !.val = next_step]),
                    speedo |-> speedo, exc |-> "none", who |-> 0,
                    kind |-> "none"]} :
       \E res \in {LoopBody(outcome, before, sim, st0, next_obs)} :
           /\ steps' = res.steps
           /\ rmsd' = res.rmsd
           /\ pc' = res.pc
           /\ propagated' = res.propagated
           /\ cause' = res.cause
           /\ log' = res.log
           /\ speedo' = res.speedo
    /\ now' = now + 1
    /\ UNCHANGED <<callback, scheduler, initial_steps, target_steps, restart,
                   output_path, start_time, nrun, nadd, stop_marker, sched,
                   seq>>

(* The operator creates <output_path>/STOP, before or during a run *)
TouchStop ==
    /\ pc \in {"INIT", "RUNNING"}
    /\ output_path # NoneVal
    /\ ~stop_marker
    /\ \E i \in 1..Len(callback) : callback[i].kind = "userstop"
    /\ stop_marker' = TRUE
    /\ UNCHANGED <<callback, scheduler, steps, initial_steps, target_steps,
                   restart, output_path, start_time, speedo, pc, propagated,
                   cause, log, nrun, nadd, now, rmsd, sched, seq>>

(* Values run() is called with *)
RunArgs == {NoneVal, 1, MaxSteps + 1}

(* Values of the rmsd after an advance: the displacement stays or grows.   *)
(* It is read by TargetRMSD only, and left alone when none is registered.  *)
RmsdValues ==
    IF \E i \in 1..Len(callback) : callback[i].kind = "rmsd"
    THEN {rmsd} \cup {r \in {rmsd + 1} : r <= RmsdThreshold} ELSE {rmsd}

Outcomes == {"ok", "KeyboardInterrupt", "BackendError"}

Next ==
    \/ \E reg \in UserRegistrations(IdCheckpoint + 1 + nadd) :
           Add(reg[1], reg[2])
    \/ \E k \in OnetimeIntervals :
           AddOnetime(Obs("writer", IdCheckpoint + 1 + nadd, 0), k)
    \/ \E t \in RunArgs : RunStart(t)
    \/ \E outcome \in Outcomes, r \in RmsdValues : Tick(outcome, r)
    \/ TouchStop

Spec == Init /\ [][Next]_vars

(* A run loop that is left alone: the backend always returns, the rmsd     *)
(* stays where it is, and only Writers and metric targets are registered   *)
TickLive == Tick("ok", rmsd)

LiveRegistrations(id) ==
    {reg \in UserRegistrations(id) : reg[1].kind \in {"writer", "rmsd"}}

NextLive ==
    \/ \E reg \in LiveRegistrations(IdCheckpoint + 1 + nadd) :
           Add(reg[1], reg[2])
    \/ \E t \in RunArgs : RunStart(t)
    \/ TickLive

(* The while loop of run() keeps iterating as long as it has not been left *)
SpecLive == Init /\ [][NextLive]_vars /\ WF_vars(TickLive)

(* Runs of a Simulation built with a step target beyond MaxSteps and left   *)
(* with the registrations of __init__: run() is called again after a run   *)
(* that was ended below the target                                         *)
LongTarget == MaxSteps + 1

InitResume ==
    /\ \E ti \in ThermoIntervals, ci \in CheckpointIntervals, a \in CtorArgs :
           SimulationInit(LongTarget, ti, ci, a)
    /\ sched = NoScheduler
    /\ seq = <<>>

NextResume ==
    \/ \E t \in RunArgs : RunStart(t)
    \/ \E outcome \in Outcomes, r \in RmsdValues : Tick(outcome, r)

SpecResume == InitResume /\ [][NextResume]_vars

(* Registrations only: any sequence of add() calls on a new Simulation *)
NextLedger ==
    \E reg \in UserRegistrations(IdCheckpoint + 1 + nadd) :
        AddToLedger(reg[1], reg[2])

SpecLedger == Init /\ [][NextLedger]_vars

(* A Scheduler built and used on its own, next to a Simulation built with  *)
(* the default arguments that is left alone                                *)
simvars == <<callback, scheduler, steps, initial_steps, target_steps, restart,
             output_path, start_time, speedo, pc, propagated, cause, log,
             nrun, nadd, now, rmsd, stop_marker>>

(* Values the arguments of Scheduler() are drawn from *)
SchedulerIntervals == {NoneVal, 0, 1, 2, 3}
SchedulerCalls == {NoneVal, 0, 1, 2, 5}
SchedulerTargets == {NoneVal, 0, 1, 3, 4, 7, 100}

InitScheduler ==
    /\ SimulationInit(0, 0, 0, <<NoneVal, NoneVal>>)
    /\ sched = NoScheduler
    /\ seq = <<>>

(* Scheduler(interval, calls, target) *)
NewScheduler(interval, calls, target) ==
    /\ ~sched.built
    /\ \E res \in {SchedulerInit(interval, calls, target)} :
           sched' = [built |-> TRUE, interval |-> interval, calls |-> calls,
                     target |-> target, ok |-> res.ok, s |-> res.s]
    /\ UNCHANGED <<simvars, seq>>

(* The step the iteration of next starts from *)
StartAt(this) ==
    /\ sched.built
    /\ sched.ok
    /\ seq = <<>>
    /\ seq' = <<this>>
    /\ UNCHANGED <<simvars, sched>>

(* sched.next(this) for the last step of seq *)
CallNext ==
    /\ seq # <<>>
    /\ Len(seq) <= MaxIter
    /\ seq' = Append(seq, next(sched.s, seq[Len(seq)]))
    /\ UNCHANGED <<simvars, sched>>

NextScheduler ==
    \/ \E interval \in SchedulerIntervals, calls \in SchedulerCalls,
          target \in SchedulerTargets : NewScheduler(interval, calls, target)
    \/ \E this \in 0..MaxStart : StartAt(this)
    \/ CallNext

SpecScheduler == InitScheduler /\ [][NextScheduler]_vars

----------------------------------------------------------------------------
(* Properties *)

(* The log entries of run number n *)
RunLog(n) == SelectSeq(log, LAMBDA e : e.run = n)

(* The log entries of the last run() call *)
ThisRun == RunLog(nrun)

(* run() has returned or raised *)
Over == pc \in {"ENDED", "FAILED"}

(* Observer invocations: scheduled or pre-loop calls, and the forced call *)
IsInvocation(e) == e.ev \in {"call", "forced"}

(* The number of forced checkpoint calls in a log *)
ForcedCount(L) == Cardinality({i \in 1..Len(L) : L[i].ev = "forced"})

(* C1: whenever run() ends because an observer raised SimulationEnd, the   *)
(* Checkpoint Writer is invoked after the raising call, at the step the    *)
(* run ended at and whatever its scheduler says, and that forced call is   *)
(* the last observer invocation of the run.                                *)
C1_ForcedCheckpointLast ==
    (Over /\ cause.exc = "SimulationEnd") =>
        LET L == ThisRun IN
        \E i \in 1..Len(L) :
            /\ L[i].ev = "forced"
            /\ L[i].who = IdCheckpoint
            /\ L[i].step = steps
            /\ \A j \in 1..Len(L) : (IsInvocation(L[j]) /\ j # i) => j < i
            /\ \E j \in 1..(i - 1) :
                   /\ L[j].ev = "call"
                   /\ L[j].who = cause.who
                   /\ \A k \in (j + 1)..(i - 1) : ~IsInvocation(L[k])

(* A run ended by SimulationEnd after some steps, the Checkpoint having a  *)
(* disabled scheduler, with the forced call in its log                     *)
C1_Witness ==
    /\ pc = "ENDED"
    /\ cause.exc = "SimulationEnd"
    /\ steps > initial_steps
    /\ \E i \in 1..Len(callback) :
           callback[i].id = IdCheckpoint /\ scheduler[i].interval = 0
    /\ ForcedCount(ThisRun) = 1

SoftConditionMet ==
    \/ cause.kind \in {"steps", "rmsd"}
    \/ cause.kind = "walltime" /\ cause.exc = "WallTimeLimit"
    \/ cause.kind = "userstop" /\ output_path # NoneVal /\ stop_marker

(* C3 as stated: every soft termination (step, metric or wall-time target  *)
(* reached, user stop requested) is caught inside run(): run() returns in  *)
(* state ENDED and nothing propagates to the caller.                       *)
C3_SoftTerminationCaught ==
    (Over /\ SoftConditionMet) => (pc = "ENDED" /\ propagated = "none")

(* C4 as stated: with a wall-time target of limit 0 registered, run()      *)
(* terminates with current_step at its initial value and the forced        *)
(* Checkpoint call made.                                                   *)
C4_WallTimeZeroEndsAtOnce ==
    (Over /\ \E i \in 1..Len(callback) :
                 callback[i].kind = "walltime" /\ callback[i].arg = 0)
    => (pc = "ENDED" /\ steps = initial_steps /\ ForcedCount(ThisRun) = 1)

(* Whether run number n ended in the SimulationEnd clause on a raise of the *)
(* step Target                                                             *)
RunEndedBySteps(n) ==
    LET L == RunLog(n) IN
    \E i \in 2..Len(L) :
        L[i].ev = "forced" /\ L[i - 1].ev = "call" /\ L[i - 1].kind = "steps"

(* The effective target step count run number n was started with *)
RunTarget(n) == RunLog(n)[1].val

(* C5 as stated: after run(a) has ended at its step target, run(b) with    *)
(* b > a starts from step a, makes no pre-loop Writer notification and     *)
(* ends with current_step = b.                                             *)
C5_RestartReachesNewTarget ==
    (/\ nrun = 2
     /\ pc = "ENDED"
     /\ RunEndedBySteps(1)
     /\ RunEndedBySteps(2)
     /\ RunTarget(1) < RunTarget(2))
    => /\ initial_steps = RunTarget(1)
       /\ steps = RunTarget(2)
       /\ \A i \in 1..Len(ThisRun) :
              ThisRun[i].ev = "call" => ThisRun[i].kind \in {"steps", "rmsd"}
                                        \/ ThisRun[i].step > initial_steps

(* The threshold of the step Target registered at construction *)
StepTarget == targeters(callback)[1].arg

(* A fresh run from step 0 that the step Target ended after some steps *)
FreshRunToTarget ==
    /\ pc = "ENDED"
    /\ cause.exc = "SimulationEnd"
    /\ cause.who = IdSteps
    /\ initial_steps = 0
    /\ steps > 0

(* The number of scheduled or pre-loop calls of observer id at step s *)
Calls(L, id, s) ==
    Cardinality({i \in 1..Len(L) :
                    L[i].ev = "call" /\ L[i].who = id /\ L[i].step = s})

(* Ledger positions of the non-Targets registered with a Scheduler whose   *)
(* interval is positive and divides T                                      *)
FixedIntervalWriters(T) ==
    {i \in 1..Len(callback) :
        /\ ~IsTarget(callback[i])
        /\ scheduler[i].type = "Scheduler"
        /\ scheduler[i].interval > 0
        /\ T % scheduler[i].interval = 0}

(* C6 as stated: in a fresh run from step 0 to step target T a Writer with *)
(* fixed interval k dividing T is invoked exactly at k, 2k, ..., T, T/k    *)
(* times in all.                                                           *)
C6_WriterOnlyAtMultiples ==
    FreshRunToTarget =>
        \A i \in FixedIntervalWriters(steps) : \A s \in 0..steps :
            Calls(ThisRun, callback[i].id, s) =
                (IF s > 0 /\ s % scheduler[i].interval = 0 THEN 1 ELSE 0)

(* C6 as amended: the main loop invokes the Writer exactly once at each of *)
(* k, 2k, ..., T, and the pre-loop notification invokes it once more at    *)
(* step 0 unless the restart flag is set.                                  *)
C6_WriterAtMultiplesAndStart ==
    FreshRunToTarget =>
        /\ steps = StepTarget
        /\ \A i \in FixedIntervalWriters(steps) : \A s \in 0..steps :
               Calls(ThisRun, callback[i].id, s) =
                   (IF s > 0 /\ s % scheduler[i].interval = 0 THEN 1
                    ELSE IF s = 0 /\ ~restart THEN 1 ELSE 0)

(* A fresh run to step 2 in which the thermo Writer, of interval 1, was    *)
(* called at steps 0, 1 and 2                                              *)
C6_Witness ==
    /\ FreshRunToTarget
    /\ steps = 2
    /\ ~restart
    /\ \E i \in FixedIntervalWriters(steps) :
           /\ callback[i].id = IdThermo
           /\ scheduler[i].interval = 1
           /\ \A s \in 0..2 : Calls(ThisRun, IdThermo, s) = 1

(* The interval of the Checkpoint's scheduler *)
CheckpointInterval ==
    scheduler[ListIndex(callback, writer_checkpoint) + 1].interval

(* C7 as stated: the Checkpoint is invoked by its schedule at the multiples *)
(* of c up to T, and termination adds one forced invocation if and only if *)
(* T did not coincide with a scheduled Checkpoint call.                    *)
C7_ForcedOnlyIfNotScheduled ==
    (FreshRunToTarget /\ CheckpointInterval > 0) =>
        /\ \A s \in 1..steps :
               Calls(ThisRun, IdCheckpoint, s) =
                   (IF s % CheckpointInterval = 0 THEN 1 ELSE 0)
        /\ ForcedCount(ThisRun) =
               (IF Calls(ThisRun, IdCheckpoint, steps) = 0 THEN 1 ELSE 0)

(* C7 as amended: the Checkpoint is invoked by its schedule at the         *)
(* multiples of c up to T (and at step 0 by the pre-loop notification      *)
(* unless the restart flag is set), and termination always adds exactly    *)
(* one forced invocation at step T, also when T is a multiple of c.        *)
C7_ForcedAlways ==
    (FreshRunToTarget /\ CheckpointInterval > 0) =>
        /\ \A s \in 0..steps :
               Calls(ThisRun, IdCheckpoint, s) =
                   (IF s > 0 /\ s % CheckpointInterval = 0 THEN 1
                    ELSE IF s = 0 /\ ~restart THEN 1 ELSE 0)
        /\ ForcedCount(ThisRun) = 1
        /\ \A i \in 1..Len(ThisRun) :
               ThisRun[i].ev = "forced" => ThisRun[i].step = StepTarget

(* A fresh run to step 2 with the Checkpoint scheduled every step: it was  *)
(* called by its schedule at steps 1 and 2, and forced at step 2           *)
C7_Witness ==
    /\ FreshRunToTarget
    /\ steps = 2
    /\ CheckpointInterval = 1
    /\ Calls(ThisRun, IdCheckpoint, 1) = 1
    /\ Calls(ThisRun, IdCheckpoint, 2) = 1
    /\ ForcedCount(ThisRun) = 1

(* C8: after any sequence of add() calls the ledger holds the non-Targets  *)
(* first and the Targets at the tail in registration order (identities are *)
(* numbered in registration order), and the Checkpoint Writer is the last  *)
(* non-Target.                                                             *)
C8_LedgerOrder ==
    LET n == Len(non_targeters(callback)) IN
    /\ \A i \in 1..Len(callback) : IsTarget(callback[i]) <=> i > n
    /\ \A i, j \in 1..Len(callback) :
           (IsTarget(callback[i]) /\ IsTarget(callback[j]) /\ i < j)
           => callback[i].id < callback[j].id
    /\ n >= 1
    /\ callback[n].id = IdCheckpoint
    /\ \A i \in 1..Len(callback) : callback[i].id = IdCheckpoint => i = n

(* A ledger to which a Target and then a Writer were added *)
C8_Witness ==
    \E i, j \in 1..Len(callback) :
        /\ callback[i].kind = "writer"
        /\ callback[j].kind \in {"rmsd", "walltime"}
        /\ IdCheckpoint < callback[j].id
        /\ callback[j].id < callback[i].id

(* C9 as stated: every observer that can raise a termination signal (step, *)
(* metric, wall-time and user-stop target) sits in the Target region of    *)
(* the ledger, after the Checkpoint.                                       *)
C9_TerminatorsAfterCheckpoint ==
    \A i \in 1..Len(callback) :
        callback[i].kind \in {"steps", "rmsd", "walltime", "userstop"}
        => i > ListIndex(callback, writer_checkpoint) + 1

(* C10: a run whose loop is entered below the step target T and is left    *)
(* alone never advances past T and eventually ends, in state ENDED, with   *)
(* current_step = T.                                                       *)
C10_RunReachesStepTarget ==
    /\ [](steps <= StepTarget)
    /\ []((Over /\ steps > initial_steps)
              => (pc = "ENDED" /\ steps = StepTarget))
    /\ ((pc = "RUNNING" /\ steps < StepTarget)
            ~> (pc = "ENDED" /\ steps = StepTarget))

(* A run that went from step 0 to its step target 2 and ended there *)
C10_Witness ==
    /\ pc = "ENDED"
    /\ initial_steps = 0
    /\ steps = 2
    /\ StepTarget = 2
    /\ cause.who = IdSteps

(* C11: for every interval > 0 and every step >= 0, next(step) is          *)
(* ((step div interval) + 1) * interval, which is the smallest multiple of *)
(* interval strictly greater than step, also when step is a multiple.      *)
C11_NextIsSmallestGreaterMultiple ==
    \A i \in 1..(Len(seq) - 1) :
        sched.s.interval > 0 =>
            LET k == sched.s.interval
                this == seq[i]
                n == seq[i + 1]
            IN  /\ n = ((this \div k) + 1) * k
                /\ n > this
                /\ n % k = 0
                /\ \A m \in (this + 1)..(n - 1) : m % k # 0

(* next(2) = 4 was computed for interval 2: the step is itself a multiple *)
C11_Witness ==
    /\ sched.ok
    /\ sched.s.interval = 2
    /\ Len(seq) >= 2
    /\ seq[1] = 2
    /\ seq[2] = 4

(* C12: for interval > 0 the sequence s, next(s), next(next(s)), ... is    *)
(* strictly increasing and holds every multiple of interval greater than   *)
(* s, skipping none: its i-th iterate is the i-th multiple above s.        *)
C12_IteratesVisitEveryMultiple ==
    (seq # <<>> /\ sched.s.interval > 0) =>
        LET k == sched.s.interval IN
        /\ \A i, j \in 1..Len(seq) : i < j => seq[i] < seq[j]
        /\ \A m \in (seq[1] + 1)..seq[Len(seq)] :
               m % k = 0 => \E i \in 2..Len(seq) : seq[i] = m
        /\ \A i \in 1..(Len(seq) - 1) : seq[i + 1] = (seq[1] \div k + i) * k

(* Three iterations from step 1 with interval 2 gave 2, 4, 6 *)
C12_Witness ==
    /\ sched.ok
    /\ sched.s.interval = 2
    /\ seq = <<1, 2, 4, 6>>

(* C13: Scheduler(interval, calls, target) with interval == 0, calls > 0   *)
(* and no target raises the configuration error: no object is built.       *)
C13_DynamicSchedulingRejected ==
    (sched.built /\ sched.interval = 0 /\ sched.calls > 0
                 /\ sched.target = NoneVal)
    => (~sched.ok /\ seq = <<>>)

(* Scheduler(0, 5, None) was attempted and raised *)
C13_Witness ==
    /\ sched.built
    /\ sched.interval = 0
    /\ sched.calls = 5
    /\ sched.target = NoneVal
    /\ ~sched.ok

(* C14: with interval == 0, calls > 0 and a target set, the interval is    *)
(* max(1, target div calls): 1 when target < calls, else the quotient q    *)
(* with q * calls <= target < (q + 1) * calls.                             *)
C14_DerivedInterval ==
    (sched.built /\ sched.interval = 0 /\ sched.calls > 0
                 /\ sched.target # NoneVal)
    => /\ sched.ok
       /\ sched.s.interval >= 1
       /\ IF sched.target < sched.calls THEN sched.s.interval = 1
          ELSE /\ sched.s.interval * sched.calls <= sched.target
               /\ sched.target < (sched.s.interval + 1) * sched.calls

(* Scheduler(0, calls=5, target=100) has interval 20 *)
C14_Witness ==
    /\ sched.ok
    /\ sched.interval = 0
    /\ sched.calls = 5
    /\ sched.target = 100
    /\ sched.s.interval = 20

(* C15 as stated: construction succeeds only for interval > 0, or for      *)
(* interval == 0 with calls > 0 and a target; every other combination is   *)
(* rejected, so every constructed Scheduler has interval > 0.              *)
C15_EveryIntervalPositive ==
    sched.built =>
        /\ sched.ok <=> \/ sched.interval > 0
                        \/ /\ sched.interval = 0
                           /\ sched.calls > 0
                           /\ sched.target # NoneVal
        /\ sched.ok => sched.s.interval > 0

(* C15 as amended: construction fails only when interval is not positive,  *)
(* calls > 0 and no target is set.  With interval and calls both unset or  *)
(* 0 it succeeds and the Scheduler is disabled: its interval stays as      *)
(* given and next returns sys.maxint.  A constructed Scheduler has         *)
(* interval > 0 exactly when interval > 0 or calls > 0 was given.          *)
C15_ConstructionOutcomes ==
    sched.built =>
        /\ sched.ok <=> ~(/\ ~(sched.interval > 0)
                          /\ sched.calls > 0
                          /\ sched.target = NoneVal)
        /\ sched.ok =>
               (sched.s.interval > 0 <=>
                    (sched.interval > 0 \/ sched.calls > 0))
        /\ (sched.ok /\ ~(sched.interval > 0) /\ ~(sched.calls > 0)) =>
               /\ sched.s.interval = sched.interval
               /\ \A i \in 2..Len(seq) : seq[i] = MaxInt

(* Scheduler(0, 0, target) was built, is disabled and answered sys.maxint *)
C15_Witness ==
    /\ sched.ok
    /\ sched.interval = 0
    /\ sched.calls = 0
    /\ sched.s.interval = 0
    /\ Len(seq) >= 2
    /\ seq[2] = MaxInt

(* The number of log entries of event ev in a log *)
Count(L, ev) == Cardinality({i \in 1..Len(L) : L[i].ev = ev})

(* C16 as stated: the closing log message is written exactly once on every *)
(* exit path of run(), a failure of the pre-run hook or of the observer    *)
(* report included.                                                        *)
C16_GoodbyeOnEveryExit == Over => Count(ThisRun, "goodbye") = 1

(* C17: a KeyboardInterrupt raised during a tick is not re-raised: run()   *)
(* returns in state ENDED, nothing is logged as fatal, and no end-of-run   *)
(* summary is emitted, also when steps were taken.                         *)
C17_AbortReturnsQuietly ==
    (Over /\ cause.exc = "KeyboardInterrupt") =>
        /\ pc = "ENDED"
        /\ propagated = "none"
        /\ Count(ThisRun, "summary") = 0
        /\ Count(ThisRun, "fatal") = 0

(* A run interrupted after it had advanced, which returned with no summary *)
C17_Witness ==
    /\ pc = "ENDED"
    /\ cause.exc = "KeyboardInterrupt"
    /\ cause.kind = "backend"
    /\ steps > initial_steps
    /\ propagated = "none"
    /\ Count(ThisRun, "summary") = 0

(* The exceptions run() treats as failures: everything but SimulationEnd   *)
(* and KeyboardInterrupt.  WallTimeLimit, which the description counts as  *)
(* a soft termination, is left out here.                                   *)
IsFailure(exc) ==
    exc \notin {"none", "SimulationEnd", "KeyboardInterrupt", "WallTimeLimit"}

(* C18: a failure raised by the backend advance or by an observer during   *)
(* run() is logged as fatal and re-raised unchanged (state FAILED), nothing *)
(* is advanced or dispatched after the raising call, and no end-of-run     *)
(* summary is emitted.                                                     *)
C18_FailureReraised ==
    (Over /\ IsFailure(cause.exc) /\ cause.kind # "report") =>
        LET L == ThisRun
            n == Len(L)
        IN  /\ pc = "FAILED"
            /\ propagated = cause.exc
            /\ Count(L, "summary") = 0
            /\ n >= 3
            /\ L[n].ev = "goodbye"
            /\ L[n - 1].ev = "fatal"
            /\ IF cause.kind = "backend" THEN L[n - 2].ev = "advance"
               ELSE L[n - 2].ev = "call" /\ L[n - 2].who = cause.who

(* The backend raised after the run had advanced, and run() re-raised it *)
C18_Witness ==
    /\ pc = "FAILED"
    /\ cause.exc = "BackendError"
    /\ cause.kind = "backend"
    /\ steps > initial_steps
    /\ propagated = "BackendError"

(* The observer calls run() made before its first backend advance, for    *)
(* the log L of one run                                                    *)
PreLoopCalls(L) ==
    LET adv == {i \in 1..Len(L) : L[i].ev = "advance"}
        first == IF adv = {} THEN Len(L) + 1
                 ELSE CHOOSE i \in adv : \A j \in adv : i <= j
    IN  SelectSeq(SubSeq(L, 1, first - 1), LAMBDA e : e.ev = "call")

(* Some step or metric Target is at or over its threshold, and the report  *)
(* of the observers succeeds                                               *)
TargetDue ==
    /\ ReportObservers = "none"
    /\ \E i \in 1..Len(callback) :
           /\ callback[i].kind \in {"steps", "rmsd"}
           /\ GetAttr([steps |-> steps, rmsd |-> rmsd], callback[i].kind)
                  >= callback[i].arg

(* The calls before the loop: Targets first, in ledger order, all of them  *)
(* before any non-Target is called or the backend advances                 *)
TargetsNotifiedFirst ==
    nrun >= 1 =>
        LET P == PreLoopCalls(ThisRun)
            TP == SelectSeq(P, IsTarget)
            tg == targeters(callback)
        IN  /\ \A i, j \in 1..Len(P) :
                   (i < j /\ IsTarget(P[j])) => IsTarget(P[i])
            /\ Len(TP) <= Len(tg)
            /\ \A i \in 1..Len(TP) :
                   TP[i].who = tg[i].id /\ TP[i].step = initial_steps
            /\ (Len(P) > Len(TP) \/ Count(ThisRun, "advance") > 0)
                   => Len(TP) = Len(tg)

(* A run() call started with a Target due ends at once: no advance, no     *)
(* call of a non-Target but the forced Checkpoint, same current step       *)
DueTargetEndsRun ==
    (nrun' = nrun + 1 /\ TargetDue) =>
        /\ pc' = "ENDED"
        /\ propagated' = "none"
        /\ cause'.exc = "SimulationEnd"
        /\ steps' = steps
        /\ Count(ThisRun', "advance") = 0
        /\ \A i \in 1..Len(ThisRun') :
               ThisRun'[i].ev = "call" => IsTarget(ThisRun'[i])
        /\ ForcedCount(ThisRun') = 1

(* C19: at the start of run() all Targets are notified before any Writer   *)
(* and before any backend advance; if a Target is already at or over its   *)
(* threshold, run() ends at once with no backend advance, no Writer        *)
(* notification other than the forced Checkpoint and current_step          *)
(* unchanged.                                                              *)
C19_TargetsFirst == []TargetsNotifiedFirst /\ [][DueTargetEndsRun]_vars

(* A second run() started at the step target: it ended at once, with the   *)
(* forced Checkpoint and no advance                                        *)
C19_Witness ==
    /\ nrun = 2
    /\ pc = "ENDED"
    /\ cause.who = IdSteps
    /\ steps = initial_steps
    /\ steps > 0
    /\ Count(ThisRun, "advance") = 0
    /\ ForcedCount(ThisRun) = 1

(* run() has got to its while loop *)
EnteredLoop == nrun >= 1 /\ (pc = "RUNNING" \/ Count(ThisRun, "advance") > 0)

(* C20: before the main loop, if the restart flag is not set, run() calls  *)
(* the non-Targets of the ledger in ledger order at the initial step, each *)
(* once and whatever its scheduler, the Checkpoint last; all of them once  *)
(* the loop is reached.  If the restart flag is set it calls none.         *)
C20_InitialWriterNotification ==
    nrun >= 1 =>
        LET W == SelectSeq(PreLoopCalls(ThisRun), LAMBDA e : ~IsTarget(e))
            nt == non_targeters(callback)
        IN  IF restart THEN W = <<>>
            ELSE /\ Len(W) <= Len(nt)
                 /\ \A i \in 1..Len(W) :
                        W[i].who = nt[i].id /\ W[i].step = initial_steps
                 /\ EnteredLoop =>
                        /\ Len(W) = Len(nt)
                        /\ W[Len(W)].who = IdCheckpoint

(* A run at its loop with a Writer added by the caller: that Writer was    *)
(* called first before the loop, the Checkpoint last, the config Writer,   *)
(* whose scheduler is disabled, in between                                 *)
C20_Witness ==
    /\ pc = "RUNNING"
    /\ ~restart
    /\ steps = initial_steps
    /\ callback[1].kind = "writer"
    /\ LET P == PreLoopCalls(ThisRun) IN
       /\ Len(P) = Len(callback)
       /\ P[Len(targeters(callback)) + 1].who = callback[1].id
       /\ P[Len(P)].who = IdCheckpoint
       /\ \E i \in 1..Len(P) : P[i].who = IdConfig

(* C21 as stated: a registered wall-time target is evaluated at every tick *)
(* of the main loop, whatever the interval of its Scheduler: it is among   *)
(* the observers the loop selects for the tick that follows the current    *)
(* step.                                                                   *)
C21_WallTimeDueEveryTick ==
    \A i \in 1..Len(callback) :
        callback[i].kind = "walltime" =>
            \E j \in 1..Len(NextObs(AllSteps, SeqMin(AllSteps))) :
                NextObs(AllSteps, SeqMin(AllSteps))[j].id = callback[i].id

(* C22 as stated: when UserStop is invoked on a Simulation with an output  *)
(* path, then with the STOP marker present the run ends as a soft          *)
(* termination (ENDED, forced Checkpoint, nothing propagated), and with    *)
(* the marker absent the invocation has no effect and ends nothing.        *)
C22_UserStopEndsSoftly ==
    (Over /\ cause.kind = "userstop" /\ output_path # NoneVal) =>
        /\ stop_marker
        /\ pc = "ENDED"
        /\ propagated = "none"
        /\ ForcedCount(ThisRun) = 1

(* C23: on a Simulation without an output path every invocation of         *)
(* UserStop raises RuntimeError: it is the last dispatch of its run, the   *)
(* failure is logged as fatal and run() re-raises it (FAILED).             *)
C23_UserStopFailsWithoutPath ==
    output_path = NoneVal =>
        /\ \A i \in 1..Len(log) :
               (log[i].ev = "call" /\ log[i].kind = "userstop") =>
                   /\ i + 2 <= Len(log)
                   /\ log[i + 1].ev = "fatal"
                   /\ log[i + 1].run = log[i].run
                   /\ log[i + 2].ev = "goodbye"
        /\ \A i \in 1..Len(ThisRun) :
               (ThisRun[i].ev = "call" /\ ThisRun[i].kind = "userstop") =>
                   /\ pc = "FAILED"
                   /\ propagated = "RuntimeError"
                   /\ cause.who = ThisRun[i].who

(* A run on a Simulation without an output path that a UserStop call made  *)
(* fail after the run had advanced                                         *)
C23_Witness ==
    /\ output_path = NoneVal
    /\ pc = "FAILED"
    /\ cause.kind = "userstop"
    /\ cause.exc = "RuntimeError"
    /\ steps > initial_steps

(* The monitored value of Speedometer id is what it was at its last sample *)
Stalled(id) ==
    /\ speedo[id].init
    /\ speedo[id].x_target > 0
    /\ GetAttr([steps |-> steps, rmsd |-> rmsd], speedo[id].name_target)
           = speedo[id].x_last

(* C24 as stated: a Speedometer invoked when the monitored value has not   *)
(* changed since its previous sample returns normally: the invocation      *)
(* raises nothing and the run does not go to FAILED.                       *)
C24_StalledSpeedometerReturns ==
    (Over /\ cause.kind = "speedometer" /\ Stalled(cause.who))
    => (cause.exc = "none" /\ pc # "FAILED")

(* A Speedometer that has been called is bound to the first Target of the *)
(* ledger, and its first call in the log is followed by no emission        *)
BoundToFirstTarget ==
    \A id \in SpeedometerIds :
        LET called == {i \in 1..Len(log) :
                          log[i].ev = "call" /\ log[i].who = id}
        IN  /\ speedo[id].init <=> called # {}
            /\ speedo[id].init =>
                   /\ speedo[id].name_target = TargetName(targeters(callback)[1])
                   /\ speedo[id].x_target = targeters(callback)[1].arg
            /\ called # {} =>
                   LET i == CHOOSE i \in called : \A j \in called : i <= j
                   IN  i = Len(log) \/ log[i + 1].ev # "speed"

(* The step that binds a Speedometer records the current value and time as *)
(* its baseline; a bound Speedometer stays bound to the same Target         *)
BindsOnce ==
    \A id \in SpeedometerIds :
        /\ (~speedo[id].init /\ speedo'[id].init) =>
               /\ speedo'[id].x_last = steps'
               /\ speedo'[id].t_last = now'
               /\ \A i \in (Len(log) + 1)..Len(log') :
                      ~(log'[i].ev = "speed" /\ log'[i].who = id)
        /\ speedo[id].init =>
               /\ speedo'[id].init
               /\ speedo'[id].name_target = speedo[id].name_target
               /\ speedo'[id].x_target = speedo[id].x_target

(* C25: the first invocation of a Speedometer binds it to the first Target *)
(* of the ledger, records the baseline sample and emits nothing; every     *)
(* later invocation, also in later run() calls, keeps that binding.        *)
C25_SpeedometerBindsOnce == []BoundToFirstTarget /\ [][BindsOnce]_vars

(* A second run() in which the Speedometer, bound in the first run on a    *)
(* ledger with two Targets, emitted                                        *)
C25_Witness ==
    /\ nrun = 2
    /\ speedo[IdSpeedometer].init
    /\ speedo[IdSpeedometer].name_target = "steps"
    /\ Len(targeters(callback)) >= 2
    /\ \E i \in 1..Len(ThisRun) :
           ThisRun[i].ev = "speed" /\ ThisRun[i].who = IdSpeedometer
    /\ \E i \in 1..Len(RunLog(1)) :
           RunLog(1)[i].ev = "call" /\ RunLog(1)[i].who = IdSpeedometer

(* Ledger positions of the observers registered with an OnetimeScheduler *)
OneShots == {i \in 1..Len(callback) : scheduler[i].type = "Onetime"}

(* The places in the log of the calls the main loop made of observer id:   *)
(* the calls that come after a backend advance of the same run             *)
LoopCalls(id) ==
    {i \in 1..Len(log) :
        /\ log[i].ev = "call"
        /\ log[i].who = id
        /\ \E j \in 1..(i - 1) :
               log[j].ev = "advance" /\ log[j].run = log[i].run}

(* C26: an OnetimeScheduler of interval k answers k for every step below k *)
(* and sys.maxint for every step >= k; the main loop calls its observer at *)
(* step k only, at most once over all runs, and exactly once in a run from *)
(* step 0 that the step Target ends at or after step k.                    *)
C26_OneShotFiresOnceAtK ==
    \A i \in OneShots :
        LET k == scheduler[i].interval
            id == callback[i].id
        IN  /\ \A this \in 0..(MaxSteps + 2) :
                   next(scheduler[i], this) = IF this < k THEN k ELSE MaxInt
            /\ \A j \in LoopCalls(id) : log[j].step = k
            /\ Cardinality(LoopCalls(id)) <= 1
            /\ (FreshRunToTarget /\ k <= steps) =>
                   \E j \in LoopCalls(id) : log[j].run = nrun

(* A run from step 0 to step 2 with a Writer under OnetimeScheduler(2),    *)
(* called once by the loop, and the ETA Speedometer, of interval 1, called *)
(* by the loop at step 1 only                                              *)
C26_Witness ==
    /\ FreshRunToTarget
    /\ steps = 2
    /\ \E i \in OneShots :
           /\ callback[i].kind = "writer"
           /\ scheduler[i].interval = 2
           /\ \E j \in LoopCalls(callback[i].id) : log[j].step = 2
    /\ \E j \in LoopCalls(IdSpeedometerETA) : log[j].step = 1

(* Ledger positions of the observers whose Scheduler is disabled *)
Disabled ==
    {i \in 1..Len(callback) :
        scheduler[i].type = "Scheduler" /\ ~(scheduler[i].interval > 0)}

(* C27: a disabled Scheduler answers sys.maxint for every step; the step   *)
(* every tick advances to is a step after the current one and below        *)
(* sys.maxint; and the main loop never calls an observer whose Scheduler   *)
(* is disabled.                                                            *)
C27_DisabledNeverDispatched ==
    /\ \A i \in Disabled :
           /\ \A this \in 0..(MaxSteps + 2) :
                  next(scheduler[i], this) = MaxInt
           /\ LoopCalls(callback[i].id) = {}
    /\ \A j \in 1..Len(log) :
           log[j].ev = "advance" =>
               (log[j].step < log[j].val /\ log[j].val < MaxInt)
    /\ pc = "RUNNING" => SeqMin(AllSteps) < MaxInt

(* A run from step 0 to step 2 with the Checkpoint's Scheduler disabled:   *)
(* the config and Checkpoint Writers were called before the loop only      *)
C27_Witness ==
    /\ FreshRunToTarget
    /\ steps = 2
    /\ ~restart
    /\ CheckpointInterval = 0
    /\ Calls(ThisRun, IdCheckpoint, 0) = 1
    /\ Calls(ThisRun, IdConfig, 0) = 1
    /\ LoopCalls(IdCheckpoint) = {}
    /\ LoopCalls(IdConfig) = {}

(* The ledger position of the observer of identity id *)
Pos(id) == CHOOSE i \in 1..Len(callback) : callback[i].id = id

(* The log entries a step appends *)
NewEntries == SubSeq(log', Len(log) + 1, Len(log'))

(* A step that is one iteration of the while loop *)
IsTick == pc = "RUNNING" /\ log' # log

(* In one iteration next_step is the minimum of next(steps) over the       *)
(* ledger, and the observers called are those whose next(steps) equals it: *)
(* all of them when the iteration completes, those up to the raising one   *)
(* when an observer raises, none when the backend raises                   *)
TickDispatch ==
    IsTick =>
        LET v == NewEntries[1].val
            due == {i \in 1..Len(callback) : next(scheduler[i], steps) = v}
            called == {NewEntries[j].who : j \in
                          {j \in 1..Len(NewEntries) :
                               NewEntries[j].ev = "call"}}
            dueIds == {callback[i].id : i \in due}
        IN  /\ NewEntries[1].ev = "advance"
            /\ \A i \in 1..Len(callback) : v <= next(scheduler[i], steps)
            /\ due # {}
            /\ called \subseteq dueIds
            /\ \A j1, j2 \in 1..Len(NewEntries) :
                   (/\ j1 < j2
                    /\ NewEntries[j1].ev = "call"
                    /\ NewEntries[j2].ev = "call")
                   => NewEntries[j1].who # NewEntries[j2].who
            /\ pc' = "RUNNING" => called = dueIds
            /\ cause'.kind = "backend" => called = {}
            /\ cause'.kind \notin {"none", "backend"} =>
                   called = {id \in dueIds : Pos(id) <= Pos(cause'.who)}

(* In an iteration whose backend advance returned, every registration      *)
(* whose next(steps) equals next_step is called                            *)
AllTiesCalled ==
    (IsTick /\ cause'.kind # "backend") =>
        \A i \in 1..Len(callback) :
            next(scheduler[i], steps) = NewEntries[1].val =>
                \E j \in 1..Len(NewEntries) :
                    /\ NewEntries[j].ev = "call"
                    /\ NewEntries[j].who = callback[i].id

(* C28 as stated: in every iteration of the main loop the observers called *)
(* are exactly the registrations whose scheduler.next(current_step) equals *)
(* next_step: all ties fire.                                               *)
C28_AllTiesFire == [][AllTiesCalled]_vars

(* C28: in every iteration of the main loop next_step is the minimum of    *)
(* scheduler.next(current_step) over all registrations, and the observers  *)
(* called are the registrations whose next equals next_step and no others, *)
(* each once: all of them when none raises, those up to and including the  *)
(* first one that raises otherwise.                                        *)
C28_MinimumAndTies == [][TickDispatch]_vars

(* A tick to step 1 that called five observers and left the loop running *)
C28_Witness ==
    /\ pc = "RUNNING"
    /\ steps = 1
    /\ initial_steps = 0
    /\ Cardinality({i \in 1..Len(ThisRun) :
                        ThisRun[i].ev = "call" /\ ThisRun[i].step = 1}) >= 5

(* In one iteration the backend advance comes first, self.steps is then    *)
(* next_step, and the calls follow in ledger order at that step: the       *)
(* non-Targets, the Checkpoint last of them, then the Targets              *)
TickOrder ==
    IsTick =>
        LET v == NewEntries[1].val
            calls == SelectSeq(NewEntries, LAMBDA e : e.ev = "call")
            dueWriters == {i \in 1..Len(callback) :
                              /\ next(scheduler[i], steps) = v
                              /\ ~IsTarget(callback[i])}
        IN  /\ NewEntries[1].ev = "advance"
            /\ cause'.kind # "backend" => steps' = v
            /\ \A j \in 1..Len(calls) : calls[j].step = v
            /\ \A j1, j2 \in 1..Len(calls) :
                   j1 < j2 =>
                       /\ Pos(calls[j1].who) < Pos(calls[j2].who)
                       /\ IsTarget(calls[j1]) => IsTarget(calls[j2])
                       /\ calls[j1].who = IdCheckpoint => IsTarget(calls[j2])
            /\ (cause'.exc = "SimulationEnd" /\ IsTarget(cause')) =>
                   \A i \in dueWriters :
                       \E j \in 1..Len(calls) : calls[j].who = callback[i].id

(* C29: within each tick the backend advances to next_step, current_step   *)
(* becomes next_step, and the due observers are then dispatched in ledger  *)
(* order (Writers, the Checkpoint last of them, then Targets): each sees   *)
(* current_step = next_step, and when a Target ends the run all Writers    *)
(* due at that step have been called.                                      *)
C29_TickOrder == [][TickOrder]_vars

(* A run ended by the step Target at step 2, where the thermo Writer and   *)
(* the Checkpoint had been called at step 2 before it                      *)
C29_Witness ==
    /\ FreshRunToTarget
    /\ steps = 2
    /\ \E i, j, k \in 1..Len(ThisRun) :
           /\ i < j /\ j < k
           /\ ThisRun[i].ev = "call" /\ ThisRun[i].who = IdThermo
           /\ ThisRun[j].ev = "call" /\ ThisRun[j].who = IdCheckpoint
           /\ ThisRun[k].ev = "call" /\ ThisRun[k].who = IdSteps
           /\ ThisRun[i].step = 2 /\ ThisRun[j].step = 2 /\ ThisRun[k].step = 2

(* C30: when run() ends on a SimulationEnd, the end-of-run summary is      *)
(* emitted, once and after the forced Checkpoint, if and only if           *)
(* self.steps differs from the initial_steps taken at the start of that    *)
(* run() call; a run ended by the Target check before the loop, with no    *)
(* backend advance, emits none; and no summary is emitted while the loop   *)
(* is running.                                                             *)
C30_SummaryIffStepsTaken ==
    /\ (Over /\ cause.exc = "SimulationEnd") =>
           /\ Count(ThisRun, "summary")
                  = (IF steps # initial_steps THEN 1 ELSE 0)
           /\ Count(ThisRun, "advance") = 0 => Count(ThisRun, "summary") = 0
           /\ \A i \in 1..Len(ThisRun) :
                  ThisRun[i].ev = "summary" =>
                      /\ ThisRun[i].step = steps
                      /\ i > 1
                      /\ ThisRun[i - 1].ev = "forced"
    /\ pc = "RUNNING" => Count(ThisRun, "summary") = 0

(* A second run ended by the Target check before the loop with no summary, *)
(* after a first run that took steps and emitted one                       *)
C30_Witness ==
    /\ nrun = 2
    /\ pc = "ENDED"
    /\ cause.exc = "SimulationEnd"
    /\ steps = initial_steps
    /\ Count(ThisRun, "advance") = 0
    /\ Count(ThisRun, "forced") = 1
    /\ Count(ThisRun, "summary") = 0
    /\ Count(RunLog(1), "advance") > 0
    /\ Count(RunLog(1), "summary") = 1

(* A step that is a call of run() *)
IsRunCall == nrun' = nrun + 1

(* The argument of the run() call a step makes: the value run() logs as    *)
(* the targeted number of steps, None when it logs none                    *)
RunArg ==
    IF Len(NewEntries) >= 2 /\ NewEntries[2].ev = "target"
    THEN NewEntries[2].val ELSE NoneVal

(* C31 as stated: run(t) sets the restart flag and makes t the effective   *)
(* target exactly when t is supplied and exceeds the previous target;      *)
(* otherwise both the restart flag and the effective target are unchanged. *)
C31_TargetRaisedOnlyIfGreater ==
    [][IsRunCall =>
          IF RunArg # NoneVal /\ RunArg > target_steps
          THEN restart' /\ target_steps' = RunArg
          ELSE restart' = restart /\ target_steps' = target_steps]_vars

(* C31: run(t) sets the restart flag exactly when t is supplied and        *)
(* exceeds the previous target, and never clears it; it makes t the        *)
(* effective target whenever t is supplied, also when t is equal to or     *)
(* below the previous target; when t is not supplied both are unchanged.   *)
C31_RunSetsTarget ==
    [][IsRunCall =>
          /\ NewEntries[1].ev = "run"
          /\ NewEntries[1].val = target_steps'
          /\ restart' = (restart \/ (RunArg # NoneVal /\ RunArg > target_steps))
          /\ target_steps' = (IF RunArg # NoneVal THEN RunArg
                              ELSE target_steps)]_vars

(* After run(t) with t below the previous target: the effective target is  *)
(* lowered to t and the restart flag is not set                            *)
C31_Witness ==
    /\ nrun >= 1
    /\ Len(ThisRun) >= 2
    /\ ThisRun[2].ev = "target"
    /\ ThisRun[2].val = target_steps
    /\ target_steps < StepTarget
    /\ ~restart

(* A non-Target other than the Checkpoint.  Identities are numbered in     *)
(* registration order.                                                     *)
IsPlainWriter(o) == ~IsTarget(o) /\ o.id # IdCheckpoint

(* The non-Targets other than the Checkpoint sit in the ledger in the      *)
(* reverse of their registration order, the last registered at the head    *)
NewestWriterFirst ==
    /\ \A i, j \in 1..Len(callback) :
           (/\ i < j
            /\ IsPlainWriter(callback[i])
            /\ IsPlainWriter(callback[j]))
           => callback[i].id > callback[j].id
    /\ IsPlainWriter(callback[1])
    /\ \A j \in 1..Len(callback) :
           IsPlainWriter(callback[j]) => callback[j].id <= callback[1].id

(* In one iteration the non-Targets other than the Checkpoint are called   *)
(* the last registered first                                               *)
NewestWriterCalledFirst ==
    IsTick =>
        \A j1, j2 \in 1..Len(NewEntries) :
            (/\ j1 < j2
             /\ NewEntries[j1].ev = "call"
             /\ NewEntries[j2].ev = "call"
             /\ IsPlainWriter([id |-> NewEntries[j1].who,
                               kind |-> NewEntries[j1].kind])
             /\ IsPlainWriter([id |-> NewEntries[j2].who,
                               kind |-> NewEntries[j2].kind]))
            => NewEntries[j1].who > NewEntries[j2].who

(* C32: among the Writers other than the Checkpoint the ledger order is    *)
(* the reverse of the registration order: after any sequence of add()      *)
(* calls the most recently added one is the first ledger entry, and it is  *)
(* called first among the Writers due at the same tick.                    *)
C32_NewestWriterFirst == []NewestWriterFirst /\ [][NewestWriterCalledFirst]_vars

(* A Writer added after construction heads the ledger and was called at    *)
(* step 2 before the thermo Writer due at the same step                    *)
C32_Witness ==
    /\ nadd >= 1
    /\ callback[1].kind = "writer"
    /\ callback[1].id > IdCheckpoint
    /\ \E i, j \in 1..Len(ThisRun) :
           /\ i < j
           /\ ThisRun[i].ev = "call" /\ ThisRun[i].who = callback[1].id
           /\ ThisRun[j].ev = "call" /\ ThisRun[j].who = IdThermo
           /\ ThisRun[i].step = 2 /\ ThisRun[j].step = 2

(* self.steps never decreases, and an iteration of the loop whose backend  *)
(* advance returns increases it; initial_steps changes in run() only,      *)
(* which sets it to self.steps and leaves self.steps alone                 *)
StepsAdvance ==
    /\ steps' >= steps
    /\ (IsTick /\ cause'.kind # "backend") => steps' > steps
    /\ IsRunCall => (initial_steps' = steps /\ steps' = steps)
    /\ ~IsRunCall => initial_steps' = initial_steps

(* initial_steps is the step the current run() call started at *)
InitialStepsSnapshot ==
    /\ initial_steps <= steps
    /\ IF nrun = 0 THEN initial_steps = 0 /\ steps = 0
       ELSE /\ ThisRun[1].ev = "run"
            /\ initial_steps = ThisRun[1].step

(* C33: over any sequence of run() calls current_step never decreases,     *)
(* each main-loop iteration (whose backend advance returns) strictly       *)
(* increases it, and initial_step equals the value current_step had when   *)
(* the current run() call started.                                         *)
C33_StepsMonotonic == []InitialStepsSnapshot /\ [][StepsAdvance]_vars

(* A second run() call that started at a resumed step and has advanced *)
C33_Witness ==
    /\ nrun = 2
    /\ initial_steps > 0
    /\ steps > initial_steps
    /\ ThisRun[1].step = initial_steps
    /\ Count(ThisRun, "advance") > 0

(* The ledger position of the step Target registered by __init__ *)
StepTargetPos == Pos(IdSteps)

(* The current run() call was given a target beyond the step it started at *)
RunAskedBeyond ==
    /\ nrun >= 1
    /\ Len(ThisRun) >= 2
    /\ ThisRun[2].ev = "target"
    /\ ThisRun[2].val > ThisRun[1].step

(* The current run() call ended at the Target check before the loop *)
EndedAtPreLoopCheck ==
    /\ Over
    /\ cause.exc = "SimulationEnd"
    /\ cause.who = IdSteps
    /\ Count(ThisRun, "advance") = 0

(* C34 as stated: the threshold of the registered step Target and the      *)
(* interval of its scheduler (max(1, target)) always equal the effective   *)
(* target step count, also after run(t) has changed it, and a run(t) with  *)
(* t greater than current_step does not end at the pre-loop Target check.  *)
C34_StepTargetFollowsRun ==
    /\ callback[StepTargetPos].arg = target_steps
    /\ scheduler[StepTargetPos].interval = Max2(1, target_steps)
    /\ RunAskedBeyond => ~EndedAtPreLoopCheck

(* The run failed in a Speedometer call that got past its own divisions    *)
(* (time and speed not zero) and raised ZeroDivisionError in               *)
(* wall_time_per_step, the run having taken no step                        *)
WallTimePerStepDividedByZero ==
    /\ pc = "FAILED"
    /\ cause.kind = "speedometer"
    /\ cause.exc = "ZeroDivisionError"
    /\ LET me == speedo[cause.who] IN
           /\ me.init
           /\ me.x_target > 0
           /\ now - me.t_last # 0
           /\ GetAttr([steps |-> steps, rmsd |-> rmsd], me.name_target)
                  - me.x_last # 0
    /\ steps = initial_steps

(* C35 as stated: over any sequence of run() calls wall_time_per_step is   *)
(* evaluated, by a Speedometer emission or by the end-of-run summary, only *)
(* where current_step differs from initial_step, so that it never divides  *)
(* by zero.                                                                *)
C35_WallTimePerStepDefined ==
    /\ ~WallTimePerStepDividedByZero
    /\ \A i \in 1..Len(log) :
           log[i].ev \in {"speed", "summary"} =>
               log[i].step # RunLog(log[i].run)[1].step

(* An iteration whose backend advance raises leaves self.steps and the     *)
(* ledger as they were, calls no observer, forced Checkpoint included, and *)
(* leaves the loop: to ENDED on KeyboardInterrupt, to FAILED otherwise     *)
AbortedTick ==
    (IsTick /\ cause'.kind = "backend") =>
        /\ steps' = steps
        /\ NewEntries[1].ev = "advance"
        /\ NewEntries[1].val > steps
        /\ \A j \in 1..Len(NewEntries) : ~IsInvocation(NewEntries[j])
        /\ callback' = callback
        /\ scheduler' = scheduler
        /\ pc' = (IF cause'.exc = "KeyboardInterrupt" THEN "ENDED"
                  ELSE "FAILED")

(* C36: if the backend advance of a tick raises (backend failure or        *)
(* operator abort), current_step keeps the value of the last completed     *)
(* tick, no observer due at the aborted tick is dispatched, and the ledger *)
(* is unchanged.                                                           *)
C36_AbortedTickFrame == [][AbortedTick]_vars

(* A run whose backend failed in the advance from step 1 to step 2: it is  *)
(* left at step 1 and no observer was called at step 2                     *)
C36_Witness ==
    /\ pc = "FAILED"
    /\ cause.kind = "backend"
    /\ cause.exc = "BackendError"
    /\ steps = 1
    /\ initial_steps = 0
    /\ \E i \in 1..Len(ThisRun) :
           ThisRun[i].ev = "advance" /\ ThisRun[i].val = 2
    /\ \A i \in 1..Len(ThisRun) :
           IsInvocation(ThisRun[i]) => ThisRun[i].step < 2

(* The schedulers observer o can have been registered with: by __init__,  *)
(* for the step target T, or by a later add()                              *)
RegisteredWith(o, T) ==
    IF o.id = IdSteps THEN {SchedulerInit(Max2(1, T), NoneVal, NoneVal).s}
    ELSE IF o.id = IdRmsd
    THEN {SchedulerInit(RmsdInterval, NoneVal, NoneVal).s}
    ELSE IF o.id = IdSpeedometer
    THEN {SchedulerInit(NoneVal, SpeedometerCalls, T).s}
    ELSE IF o.id = IdSpeedometerETA
    THEN {OnetimeSchedulerInit(Max2(1, T \div EtaDivisor))}
    ELSE IF o.id = IdThermo
    THEN {SchedulerInit(ti, 0, T).s : ti \in ThermoIntervals}
    ELSE IF o.id = IdConfig THEN {SchedulerInit(0, 0, T).s}
    ELSE IF o.id = IdCheckpoint
    THEN {SchedulerInit(ci, 0, T).s : ci \in CheckpointIntervals}
    ELSE {SchedulerInit(reg[2], NoneVal, NoneVal).s :
              reg \in {r \in UserRegistrations(o.id) : r[1] = o}}

(* The two lists have one entry for each registration made, and every      *)
(* observer has at its index a scheduler it was registered with            *)
ListsAligned ==
    /\ Len(callback) = Len(scheduler)
    /\ Len(callback)
           = Cardinality({i \in 1..Len(callback) :
                              callback[i].id <= IdCheckpoint}) + nadd
    /\ \A i, j \in 1..Len(callback) :
           callback[i].id = callback[j].id => i = j
    /\ \A i \in 1..Len(callback) :
           scheduler[i] \in RegisteredWith(callback[i], target_steps)

(* An add() lengthens both lists by one and keeps every observer already   *)
(* registered with the scheduler it had                                    *)
AddKeepsPairs ==
    (nadd' = nadd + 1) =>
        /\ Len(callback') = Len(callback) + 1
        /\ Len(scheduler') = Len(scheduler) + 1
        /\ \A i \in 1..Len(callback) :
               \E j \in 1..Len(callback') :
                   callback'[j] = callback[i] /\ scheduler'[j] = scheduler[i]
        /\ \E j \in 1..Len(callback') :
               callback'[j].id = IdCheckpoint + 1 + nadd

(* C37: after any sequence of add() calls the observer list and the        *)
(* scheduler list have the same length and stay aligned: every observer    *)
(* sits at the index of the scheduler it was registered with, also after   *)
(* the Checkpoint relocation, and each add() lengthens both lists by one.  *)
C37_ListsAligned == []ListsAligned /\ [][AddKeepsPairs]_vars

(* Two add() calls have been made: a Writer, at the head with its          *)
(* Scheduler(2), and then a metric Target, at the tail with its            *)
(* Scheduler(1); the Checkpoint has been moved behind the Writer           *)
C37_Witness ==
    /\ nadd = 2
    /\ callback[1].kind = "writer"
    /\ callback[1].id = IdCheckpoint + 1
    /\ scheduler[1].interval = 2
    /\ callback[Len(callback)].kind = "rmsd"
    /\ callback[Len(callback)].id = IdCheckpoint + 2
    /\ scheduler[Len(scheduler)].interval = 1

====
